---- MODULE Spec2Model ----
(***************************************************************************)
(* A model of src/jukebox/mir.py: the batch driver embed_from_folder and    *)
(* the per-file pipeline get_acts_from_file / get_acts_from_array, with the *)
(* pure helpers audio_padding and the mean-pooling step.                    *)
(*                                                                         *)
(* File names are sequences of characters, so that endswith, pathlib's      *)
(* stem and sorted() are computed as Python computes them.                  *)
(* An audio buffer is a sequence of runs [v |-> sample, n |-> count]: the   *)
(* buffer it stands for is Expand(audio).  A million-sample buffer is then  *)
(* a finite object, and slicing and concatenation keep their meaning.       *)
(* A tensor is [shape, known, data]: data is the row-major sequence of its  *)
(* elements when known; the pipeline's tensors, whose values the external   *)
(* models decide, have known = FALSE and only their shape is tracked.       *)
(***************************************************************************)
EXTENDS Integers, Sequences, FiniteSets, TLC

\* ------------------------------------------------------------- bounds
\* most directory entries of input_dir
MaxFiles == 3
\* longest sample sequence handed to audio_padding on its own
MaxAudioLen == 3
\* most rows of an activation tensor handed to the postprocessing on its own
MaxRows == 4

\* ---------------------------------------------------- program constants
JUKEBOX_SAMPLE_RATE == 44100
T == 8192
SAMPLE_LENGTH == 1048576
\* get_z keeps the first JUKEBOX_SAMPLE_RATE * 25 samples
TRUNCATE_SECONDS == 25
\* get_z's minimum token count
MIN_TOKENS == 8192
\* get_cond's sample_length_in_seconds
SAMPLE_LENGTH_IN_SECONDS == 62
\* the hidden width written in acts.view(meanpool, -1, 4800)
HIDDEN_WIDTH == 4800
\* hps.n_samples, hps.levels set by load_vqvae_and_prior
N_SAMPLES == 8
LEVELS == 3

None == "None"

Min(a, b) == IF a < b THEN a ELSE b

\* ------------------------------------------------------------ file names
\* code points of the characters the names below use
Code(c) ==
  CASE c = "." -> 46 [] c = "A" -> 65 [] c = "B" -> 66 [] c = "V" -> 86
    [] c = "W" -> 87 [] c = "a" -> 97 [] c = "b" -> 98 [] c = "n" -> 110
    [] c = "p" -> 112 [] c = "t" -> 116 [] c = "v" -> 118 [] c = "w" -> 119
    [] c = "x" -> 120 [] c = "y" -> 121

\* Python's str < str: lexicographic by code point, a proper prefix is smaller
RECURSIVE str_lt(_, _)
str_lt(a, b) ==
  IF b = <<>> THEN FALSE
  ELSE IF a = <<>> THEN TRUE
  ELSE IF Code(Head(a)) # Code(Head(b)) THEN Code(Head(a)) < Code(Head(b))
  ELSE str_lt(Tail(a), Tail(b))

\* str.endswith
endswith(name, suffix) ==
  /\ Len(name) >= Len(suffix)
  /\ SubSeq(name, Len(name) - Len(suffix) + 1, Len(name)) = suffix

\* str.rfind('.') as a 1-based position, 0 when there is no dot
rfind_dot(name) ==
  LET hits == {i \in 1..Len(name) : name[i] = "."}
  IN IF hits = {} THEN 0 ELSE CHOOSE i \in hits : \A j \in hits : j <= i

\* pathlib.PurePath.stem: the name up to its last dot, unless that dot is the
\* first or the last character of the name
stem(name) ==
  LET p == rfind_dot(name)
  IN IF 1 < p /\ p < Len(name) THEN SubSeq(name, 1, p - 1) ELSE name

DotWav == <<".", "w", "a", "v">>
DotNpy == <<".", "n", "p", "y">>

\* pathlib.Path(output_dir, f"{input_path.stem}.npy"), as a name in output_dir
output_path_of(input_path) == stem(input_path) \o DotNpy

\* sorted(list(input_dir.iterdir()))
RECURSIVE sorted(_)
sorted(S) ==
  IF S = {} THEN <<>>
  ELSE LET m == CHOOSE x \in S : \A y \in S : x = y \/ str_lt(x, y)
       IN <<m>> \o sorted(S \ {m})

is_wav(x) == endswith(x, DotWav)

\* list(filter(lambda x: x.name.endswith('.wav'), input_paths))
filter_wav(paths) == SelectSeq(paths, is_wav)

\* the directory entries the model draws input_dir from
NameUniverse ==
  { <<"a", ".", "w", "a", "v">>,
    <<"b", ".", "w", "a", "v">>,
    <<".", "w", "a", "v">>,
    <<".", "w", "a", "v", ".", "w", "a", "v">>,
    <<"a", ".", "b", ".", "w", "a", "v">>,
    <<"B", ".", "W", "A", "V">>,
    <<"a", ".", "t", "x", "t">> }

\* ---------------------------------------------------------- audio buffers
RECURSIVE shape0(_)
\* audio.shape[0]
shape0(audio) ==
  IF audio = <<>> THEN 0 ELSE Head(audio).n + shape0(Tail(audio))

RECURSIVE Expand(_)
\* the sample sequence a run sequence stands for
Expand(audio) ==
  IF audio = <<>> THEN <<>>
  ELSE [i \in 1..Head(audio).n |-> Head(audio).v] \o Expand(Tail(audio))

\* a sample sequence as runs of one sample each
FromSamples(s) == [i \in 1..Len(s) |-> [v |-> s[i], n |-> 1]]

RECURSIVE take(_, _)
\* audio[:k] for k >= 0
take(audio, k) ==
  IF audio = <<>> \/ k <= 0 THEN <<>>
  ELSE IF Head(audio).n >= k THEN << [v |-> Head(audio).v, n |-> k] >>
  ELSE <<Head(audio)>> \o take(Tail(audio), k - Head(audio).n)

\* np.zeros(n) for n >= 0 (a negative n raises ValueError, see audio_padding)
np_zeros(n) == << [v |-> 0, n |-> n] >>


\* results of operations that may raise: a value, or the exception's name
Ok(v) == [err |-> None, val |-> v]
Err(e) == [err |-> e, val |-> <<>>]

\* audio_padding appending target_length zeros instead of padding_length
audio_padding_full(audio, target_length) ==
  LET padding_length == target_length - shape0(audio)
  IN IF padding_length < 0 THEN Err("ValueError")
     ELSE Ok(audio \o np_zeros(target_length))

\* audio_padding, lines 49-53
audio_padding(audio, target_length) ==
  LET padding_length == target_length - shape0(audio)
  IN IF padding_length < 0 THEN Err("ValueError")
     ELSE Ok(audio \o np_zeros(padding_length))

\* lr.resample(audio, sr, JUKEBOX_SAMPLE_RATE): the buffer itself at an equal
\* rate, else ceil(n * target / orig) resampled samples
resample(audio, orig_sr, target_sr) ==
  IF orig_sr = target_sr THEN audio
  ELSE << [v |-> "s", n |-> (shape0(audio) * target_sr + orig_sr - 1) \div orig_sr] >>

\* preprocess_audio, lines 26-41: the length is the resampled length; the
\* peak np.abs(audio).max() of an empty buffer raises ValueError
preprocess_audio(audio, sr) ==
  LET resampled == resample(audio, sr, JUKEBOX_SAMPLE_RATE)
  IN IF shape0(resampled) = 0 THEN Err("ValueError: zero-size array")
     ELSE Ok(resampled)

\* get_acts_from_array without its zero padding
zero_padding_none(audio) == audio

\* get_acts_from_array's zero padding, lines 126-128
zero_padding(audio) ==
  IF shape0(audio) < SAMPLE_LENGTH
  THEN audio_padding(audio, SAMPLE_LENGTH).val
  ELSE audio

\* get_z without its slice
get_z_slice_none(audio) == audio

\* get_z's slice audio[: JUKEBOX_SAMPLE_RATE * 25], line 58
get_z_slice(audio) == take(audio, JUKEBOX_SAMPLE_RATE * TRUNCATE_SECONDS)

\* vqvae.encode(...)[-1].flatten(), lines 62-64: the coarsest level of the
\* codec emits one token per raw_to_tokens samples
encode_top(audio, vqvae) == shape0(audio) \div vqvae.raw_to_tokens

\* get_z without its length check
get_z_check_none(n_tokens) ==
  Ok([shape |-> <<1, n_tokens>>, known |-> FALSE, data |-> <<>>])

\* get_z's length check, lines 66-69
get_z_check(n_tokens) ==
  IF n_tokens < MIN_TOKENS
  THEN Err("ValueError: Audio file is not long enough")
  ELSE Ok([shape |-> <<1, n_tokens>>, known |-> FALSE, data |-> <<>>])

\* get_z, lines 56-69
get_z(audio, vqvae) == get_z_check(encode_top(get_z_slice(audio), vqvae))

\* hps.sample_length as get_cond sets it, lines 73-77
get_cond_sample_length(hps, top_prior) ==
  ((SAMPLE_LENGTH_IN_SECONDS * hps.sr) \div top_prior.raw_to_tokens)
    * top_prior.raw_to_tokens

\* get_cond also resetting hps.n_samples
get_cond_hps_n_samples(hps, top_prior) ==
  [f \in DOMAIN hps \cup {"sample_length"} |->
     IF f = "sample_length" THEN get_cond_sample_length(hps, top_prior)
     ELSE IF f = "n_samples" THEN 1
     ELSE hps[f]]

\* the hyperparameter bundle after get_cond, lines 75-77
get_cond_hps(hps, top_prior) ==
  [f \in DOMAIN hps \cup {"sample_length"} |->
     IF f = "sample_length" THEN get_cond_sample_length(hps, top_prior)
     ELSE hps[f]]

\* the placeholder metadata get_cond conditions on, lines 82-100
get_cond_metas(hps) ==
  [artist |-> "unknown", genre |-> "unknown",
   total_length |-> hps.sample_length, offset |-> 0, n |-> hps.n_samples]

\* get_final_activations without the slice to T tokens
slice_T_none(z) == z

\* x = z[:, :T], line 104
slice_T(z) ==
  [shape |-> <<z.shape[1], Min(z.shape[2], T)>>, known |-> z.known, data |-> z.data]

\* the prior after get_final_activations, line 107
set_only_encode(top_prior) == [top_prior EXCEPT !.only_encode = TRUE]

\* top_prior.prior.forward(x, ...) in encode-only mode, lines 110-114: one
\* hidden vector per token
prior_forward(x) ==
  [shape |-> <<x.shape[1], x.shape[2], HIDDEN_WIDTH>>, known |-> FALSE, data |-> <<>>]

\* load_vqvae_and_prior, lines 150-182: the bundle and the models as loaded
loaded_hps ==
  [f \in {"sr", "n_samples", "name", "levels"} |->
     CASE f = "sr" -> JUKEBOX_SAMPLE_RATE
       [] f = "n_samples" -> N_SAMPLES
       [] f = "name" -> "samples"
       [] f = "levels" -> LEVELS]

loaded_vqvae(hop) == [raw_to_tokens |-> hop, sample_length |-> SAMPLE_LENGTH]

loaded_prior(hop) == [raw_to_tokens |-> hop, only_encode |-> FALSE, n_ctx |-> T]

\* the hops the loaded codec may have: the checkpoint decides it, not this
\* file (Jukebox's 5b codec has 128 = SAMPLE_LENGTH / T at its coarsest level)
HopValues == {128, 256}


\* ---------------------------------------------------------------- tensors
RECURSIVE numel(_)
\* the number of elements of a shape
numel(shape) == IF shape = <<>> THEN 1 ELSE Head(shape) * numel(Tail(shape))

\* Tensor.squeeze(): drops every dimension of size 1
squeeze(t) ==
  [shape |-> SelectSeq(t.shape, LAMBDA d : d # 1), known |-> t.known, data |-> t.data]

\* Tensor.view(a, -1, c): the same row-major data under the shape (a, b, c),
\* b inferred; RuntimeError when the element count is no multiple of a * c
view3(t, a, c) ==
  IF a * c <= 0 \/ numel(t.shape) % (a * c) # 0 THEN Err("RuntimeError")
  ELSE Ok([shape |-> <<a, numel(t.shape) \div (a * c), c>>,
           known |-> t.known, data |-> t.data])

RECURSIVE SeqSum(_)
\* the sum of a sequence's elements
SeqSum(s) == IF s = <<>> THEN 0 ELSE Head(s) + SeqSum(Tail(s))

\* the mean taken over windows that interleave the rows (the first axis of
\* the view taken for the window axis)
mean_dim1_strided(t) ==
  LET a == t.shape[1]
      b == t.shape[2]
      c == t.shape[3]
      at(i, k) ==
        [num |-> SeqSum([j \in 1..b |-> t.data[((j - 1) * a + i) * c + k + 1]]),
         den |-> b]
  IN [shape |-> <<a, c>>, known |-> t.known,
      data |-> IF t.known
               THEN [e \in 1..(a * c) |-> at((e - 1) \div c, (e - 1) % c)]
               ELSE <<>>]

\* Tensor.mean(dim=1) of a tensor of shape (a, b, c): element (i, k) is the
\* mean over j of element (i, j, k), kept as the exact fraction num / den
mean_dim1(t) ==
  LET a == t.shape[1]
      b == t.shape[2]
      c == t.shape[3]
      at(i, k) ==
        [num |-> SeqSum([j \in 1..b |-> t.data[(i * b + j - 1) * c + k + 1]]),
         den |-> b]
  IN [shape |-> <<a, c>>, known |-> t.known,
      data |-> IF t.known
               THEN [e \in 1..(a * c) |-> at((e - 1) \div c, (e - 1) % c)]
               ELSE <<>>]

\* the assertion of line 143
meanpool_divides(acts, meanpool) == acts.shape[1] % meanpool = 0

\* get_acts_from_array's postprocessing, lines 139-147, for activations of
\* hidden width `width` (4800 in the source)
postprocess(acts, meanpool, width) ==
  LET squeezed == squeeze(acts)
  IN IF ~meanpool_divides(squeezed, meanpool) THEN Err("AssertionError")
     ELSE LET viewed == view3(squeezed, meanpool, width)
          IN IF viewed.err # None THEN Err(viewed.err)
             ELSE Ok(mean_dim1(viewed.val))


\* ------------------------------------------------------------------ state
VARIABLES
  input_dir,      \* the names of input_dir's entries
  output_dir,     \* output_dir: file name -> the array file's content
  preexisting,    \* the names output_dir held when the run began
  meanpool,       \* average_pool_slices
  pc,             \* embed_from_folder's position
  input_paths,    \* the sorted, filtered list of line 200
  idx,            \* the loop's position in input_paths (0: before the first)
  output_path,    \* the current iteration's output_path
  vqvae, top_prior, hps,   \* the loaded models and the hyperparameter bundle
  at_load,        \* hps and top_prior as load_vqvae_and_prior returned them
  audio,          \* the current file's audio buffer
  raw_len,        \* its length after preprocessing
  enc_len,        \* the length of the buffer handed to vqvae.encode
  tokens,         \* the number of tokens the codec emitted for it
  z, cond, acts, representation,
  error,          \* the exception that left embed_from_folder, or None
  trace,          \* the pipeline steps completed for the current file
  started,        \* the positions whose iteration began, in order
  written,        \* the positions whose np.save completed, in order
  skipped,        \* the positions that took the cached branch
  pad_in, pad_target, pad_out,     \* one call of audio_padding
  pool_in, pool_n, pool_out        \* one call of the postprocessing

runVars == <<input_dir, preexisting, meanpool>>
modelVars == <<vqvae, top_prior, hps, at_load>>
fileVars == <<audio, raw_len, enc_len, tokens, z, cond, acts, representation>>
logVars == <<started, written, skipped>>
batchVars ==
  <<input_dir, output_dir, preexisting, meanpool, pc, input_paths, idx,
    output_path, vqvae, top_prior, hps, at_load, audio, raw_len, enc_len,
    tokens, z, cond, acts, representation, error, trace, started, written,
    skipped>>
padVars == <<pad_in, pad_target, pad_out>>
poolVars == <<pool_in, pool_n, pool_out>>
vars == <<batchVars, padVars, poolVars>>

NoTensor == [shape |-> <<>>, known |-> FALSE, data |-> <<>>]

\* the preprocessed lengths (in samples at 44100 Hz) a decoded file may have
Lengths ==
  { 0, 1, 5 * JUKEBOX_SAMPLE_RATE, SAMPLE_LENGTH - 1, SAMPLE_LENGTH,
    SAMPLE_LENGTH + 1, TRUNCATE_SECONDS * JUKEBOX_SAMPLE_RATE,
    TRUNCATE_SECONDS * JUKEBOX_SAMPLE_RATE + 1, 30 * JUKEBOX_SAMPLE_RATE }

\* the positive window counts the driver is run with
MeanpoolValues == {1, 7, 32, 8192, 16384}

\* an array file output_dir held before the run
OldFile == [src |-> <<>>, run |-> "old", shape |-> <<>>]

\* the cache flag switched on
USING_CACHED_FILE_on == TRUE

\* the cache flag of line 193
USING_CACHED_FILE == FALSE

BatchIdle ==
  /\ input_dir = {} /\ output_dir = <<>> /\ preexisting = {} /\ meanpool = 1
  /\ pc = "off" /\ input_paths = <<>> /\ idx = 0 /\ output_path = <<>>
  /\ vqvae = <<>> /\ top_prior = <<>> /\ hps = <<>> /\ at_load = <<>>
  /\ audio = <<>> /\ raw_len = 0 /\ enc_len = 0 /\ tokens = 0
  /\ z = NoTensor /\ cond = <<>> /\ acts = NoTensor /\ representation = NoTensor
  /\ error = None /\ trace = <<>> /\ started = <<>> /\ written = <<>>
  /\ skipped = <<>>

PadIdle == pad_in = <<>> /\ pad_target = 0 /\ pad_out = Err("not called")
PoolIdle == pool_in = NoTensor /\ pool_n = 1 /\ pool_out = Err("not called")

\* embed_from_folder is called: a directory of at most MaxFiles entries, an
\* output directory that may already hold some of the arrays
Init ==
  /\ input_dir \in {d \in SUBSET NameUniverse : Cardinality(d) <= MaxFiles}
  /\ preexisting \in SUBSET {output_path_of(n) : n \in {x \in input_dir : is_wav(x)}}
  /\ output_dir = [f \in preexisting |-> OldFile]
  /\ meanpool \in MeanpoolValues
  /\ pc = "settings" /\ input_paths = <<>> /\ idx = 0 /\ output_path = <<>>
  /\ vqvae = <<>> /\ top_prior = <<>> /\ hps = <<>> /\ at_load = <<>>
  /\ audio = <<>> /\ raw_len = 0 /\ enc_len = 0 /\ tokens = 0
  /\ z = NoTensor /\ cond = <<>> /\ acts = NoTensor /\ representation = NoTensor
  /\ error = None /\ trace = <<>> /\ started = <<>> /\ written = <<>>
  /\ skipped = <<>>
  /\ PadIdle /\ PoolIdle

\* an exception caught in the loop body, the loop going on to the next input
RaiseCaught(e) == pc' = "for" /\ error' = e

\* an exception leaves embed_from_folder: nothing in the loop catches it
Raise(e) == pc' = "failed" /\ error' = e

\* lines 196-202: list, sort and filter the inputs, load the models
Settings ==
  /\ pc = "settings"
  /\ input_paths' = filter_wav(sorted(input_dir))
  /\ \E hop \in HopValues :
       /\ vqvae' = loaded_vqvae(hop)
       /\ top_prior' = loaded_prior(hop)
       /\ hps' = loaded_hps
       /\ at_load' = [hps |-> loaded_hps, top_prior |-> loaded_prior(hop)]
  /\ pc' = "for"
  /\ UNCHANGED <<runVars, output_dir, idx, output_path, fileVars, error, trace,
                 logVars, padVars, poolVars>>

\* lines 204-210: the next iteration, its output_path and the cache check
ForNext ==
  /\ pc = "for"
  /\ IF idx = Len(input_paths)
     THEN /\ pc' = "done"
          /\ UNCHANGED <<idx, output_path, trace, logVars>>
     ELSE LET op == output_path_of(input_paths[idx + 1])
          IN /\ idx' = idx + 1
             /\ output_path' = op
             /\ trace' = <<>>
             /\ started' = Append(started, idx + 1)
             /\ written' = written
             /\ IF op \in DOMAIN output_dir /\ USING_CACHED_FILE
                THEN pc' = "for" /\ skipped' = Append(skipped, idx + 1)
                ELSE pc' = "load" /\ skipped' = skipped
  /\ audio' = <<>> /\ raw_len' = 0 /\ enc_len' = 0 /\ tokens' = 0
  /\ z' = NoTensor /\ cond' = <<>> /\ acts' = NoTensor
  /\ representation' = NoTensor
  /\ UNCHANGED <<runVars, output_dir, input_paths, modelVars, error, padVars,
                 poolVars>>

\* get_acts_from_file, lines 117-118, with load_audio_from_file, lines 44-46:
\* lr.load decodes the file (or raises), preprocess_audio normalises it
LoadAudio ==
  /\ pc = "load"
  /\ \/ /\ Raise("LoadError")
        /\ UNCHANGED <<audio, raw_len, trace>>
     \/ \E n \in Lengths :
          LET r == preprocess_audio(<< [v |-> "s", n |-> n] >>, JUKEBOX_SAMPLE_RATE)
          IN IF r.err # None
             THEN Raise(r.err) /\ UNCHANGED <<audio, raw_len, trace>>
             ELSE /\ audio' = r.val
                  /\ raw_len' = shape0(r.val)
                  /\ trace' = Append(trace, "load")
                  /\ pc' = "array"
                  /\ error' = error
  /\ UNCHANGED <<runVars, output_dir, input_paths, idx, output_path, modelVars,
                 enc_len, tokens, z, cond, acts, representation, logVars,
                 padVars, poolVars>>

\* get_acts_from_array, lines 124-128: preprocess again, then zero padding
PreprocessPad ==
  /\ pc = "array"
  /\ LET r == preprocess_audio(audio, JUKEBOX_SAMPLE_RATE)
     IN IF r.err # None
        THEN Raise(r.err) /\ UNCHANGED <<audio, trace>>
        ELSE /\ audio' = zero_padding(r.val)
             /\ trace' = Append(trace, "pad")
             /\ pc' = "get_z"
             /\ error' = error
  /\ UNCHANGED <<runVars, output_dir, input_paths, idx, output_path, modelVars,
                 raw_len, enc_len, tokens, z, cond, acts, representation,
                 logVars, padVars, poolVars>>

\* line 131 with get_z, lines 56-69
GetZ ==
  /\ pc = "get_z"
  /\ enc_len' = shape0(get_z_slice(audio))
  /\ tokens' = encode_top(get_z_slice(audio), vqvae)
  /\ LET r == get_z(audio, vqvae)
     IN IF r.err # None
        THEN Raise(r.err) /\ UNCHANGED <<z, trace>>
        ELSE /\ z' = r.val
             /\ trace' = Append(trace, "get_z")
             /\ pc' = "get_cond"
             /\ error' = error
  /\ UNCHANGED <<runVars, output_dir, input_paths, idx, output_path, modelVars,
                 audio, raw_len, cond, acts, representation, logVars, padVars,
                 poolVars>>

\* line 134 with get_cond, lines 72-100
GetCond ==
  /\ pc = "get_cond"
  /\ hps' = get_cond_hps(hps, top_prior)
  /\ cond' = get_cond_metas(get_cond_hps(hps, top_prior))
  /\ trace' = Append(trace, "get_cond")
  /\ pc' = "get_final_activations"
  /\ UNCHANGED <<runVars, output_dir, input_paths, idx, output_path, vqvae,
                 top_prior, at_load, audio, raw_len, enc_len, tokens, z, acts,
                 representation, error, logVars, padVars, poolVars>>

\* line 137 with get_final_activations, lines 103-114
GetFinalActivations ==
  /\ pc = "get_final_activations"
  /\ top_prior' = set_only_encode(top_prior)
  /\ acts' = prior_forward(slice_T(z))
  /\ trace' = Append(trace, "get_final_activations")
  /\ pc' = "postprocess"
  /\ UNCHANGED <<runVars, output_dir, input_paths, idx, output_path, vqvae,
                 hps, at_load, audio, raw_len, enc_len, tokens, z, cond,
                 representation, error, logVars, padVars, poolVars>>

\* lines 139-147
Postprocess ==
  /\ pc = "postprocess"
  /\ LET r == postprocess(acts, meanpool, HIDDEN_WIDTH)
     IN IF r.err # None
        THEN Raise(r.err) /\ UNCHANGED <<representation, trace>>
        ELSE /\ representation' = r.val
             /\ trace' = Append(trace, "postprocess")
             /\ pc' = "save"
             /\ error' = error
  /\ UNCHANGED <<runVars, output_dir, input_paths, idx, output_path, modelVars,
                 audio, raw_len, enc_len, tokens, z, cond, acts, logVars,
                 padVars, poolVars>>

\* the array file np.save writes for the current input
NewFile == [src |-> input_paths[idx], run |-> "new", shape |-> representation.shape]

\* line 218: np.save(output_path, representation)
Save ==
  /\ pc = "save"
  /\ output_dir' =
       [f \in DOMAIN output_dir \cup {output_path} |->
          IF f = output_path THEN NewFile ELSE output_dir[f]]
  /\ written' = Append(written, idx)
  /\ trace' = Append(trace, "save")
  /\ pc' = "for"
  /\ UNCHANGED <<runVars, input_paths, idx, output_path, modelVars, fileVars,
                 error, started, skipped, padVars, poolVars>>

Next ==
  \/ Settings
  \/ ForNext
  \/ LoadAudio
  \/ PreprocessPad
  \/ GetZ
  \/ GetCond
  \/ GetFinalActivations
  \/ Postprocess
  \/ Save

Spec == Init /\ [][Next]_vars


\* ------------------------------------------------- audio_padding on its own
RECURSIVE SeqsUpTo(_, _)
\* the sequences over S of length at most n
SeqsUpTo(S, n) ==
  IF n = 0 THEN {<<>>}
  ELSE LET shorter == SeqsUpTo(S, n - 1)
       IN shorter \cup {Append(s, x) : s \in shorter, x \in S}

\* the sample values of the buffers padded on their own
Samples == {-1, 0, 1}

PadInit ==
  /\ BatchIdle /\ PoolIdle
  /\ pad_in \in {FromSamples(s) : s \in SeqsUpTo(Samples, MaxAudioLen)}
  /\ pad_target \in 0..(MaxAudioLen + 1)
  /\ pad_out = Err("not called")

\* audio_padding(pad_in, pad_target), lines 49-53
PadCall ==
  /\ pad_out.err = "not called"
  /\ pad_out' = audio_padding(pad_in, pad_target)
  /\ UNCHANGED <<batchVars, poolVars, pad_in, pad_target>>

PadSpec == PadInit /\ [][PadCall]_vars

\* ------------------------------------------- the postprocessing on its own
\* the hidden widths of the activation tensors pooled on their own
PoolWidths == {2}

\* activations as the prior returns them: (1, rows, width), at least two rows
\* and two columns as in the source's (1, 8192, 4800)
PoolTensors ==
  UNION { { [shape |-> <<1, r, w>>, known |-> TRUE, data |-> d] :
              d \in [1..(r * w) -> {0, 1}] } :
          r \in 2..MaxRows, w \in PoolWidths }

PoolInit ==
  /\ BatchIdle /\ PadIdle
  /\ pool_in \in PoolTensors
  /\ pool_n \in 1..(MaxRows + 1)
  /\ pool_out = Err("not called")

\* lines 139-147 on pool_in with meanpool = pool_n
PoolCall ==
  /\ pool_out.err = "not called"
  /\ pool_out' = postprocess(pool_in, pool_n, pool_in.shape[3])
  /\ UNCHANGED <<batchVars, padVars, pool_in, pool_n>>

PoolSpec == PoolInit /\ [][PoolCall]_vars


\* ------------------------------------------------------------ properties
Range(s) == {s[i] : i \in 1..Len(s)}
Upto(n) == [i \in 1..n |-> i]
NotLongEnough == "ValueError: Audio file is not long enough"

\* the output file name of the input at position i
OutOf(i) == output_path_of(input_paths[i])

\* the run failed in the step that follows `step` of the current file
FailedAfter(step) ==
  pc = "failed" /\ Len(trace) > 0 /\ trace[Len(trace)] = step

\* the buffer of the current file has been handed to the codec
Encoded == enc_len > 0

\* C1: a failure while processing the k-th input is not caught and ends the
\* run: the loop is at k, inputs 1..k-1 (and no others) were saved and their
\* output files hold this run's arrays, nothing was saved for input k, and no
\* further step is ever taken, so no later input is processed.
C1_FailureEndsRun ==
  /\ [](error # None =>
          /\ pc = "failed"
          /\ idx >= 1
          /\ started = Upto(idx)
          /\ written = Upto(idx - 1)
          /\ \A i \in 1..(idx - 1) :
               OutOf(i) \in DOMAIN output_dir /\ output_dir[OutOf(i)].run = "new")
  /\ [][error # None => UNCHANGED vars]_vars

\* C1 witness: the second of three inputs failed
C1_Witness ==
  error # None /\ idx = 2 /\ Len(input_paths) = 3 /\ written = <<1>>

\* C2: the cached branch is never taken: every input whose iteration began
\* and did not fail went through the pipeline and was saved, and its output
\* file holds this run's array (of the last input saved under that name),
\* whether or not the file existed before the run.
C2_NeverSkips ==
  /\ skipped = <<>>
  /\ written \in {Upto(idx), Upto(idx - 1)}
  /\ pc = "for" => written = Upto(idx)
  /\ \A i \in Range(written) :
       /\ OutOf(i) \in DOMAIN output_dir
       /\ output_dir[OutOf(i)].run = "new"
       /\ output_dir[OutOf(i)].shape = <<meanpool, HIDDEN_WIDTH>>
       /\ LET last == CHOOSE j \in Range(written) :
                        /\ OutOf(j) = OutOf(i)
                        /\ \A k \in Range(written) : OutOf(k) = OutOf(i) => k <= j
          IN output_dir[OutOf(i)].src = input_paths[last]

\* C2 witness: an input whose output file existed before the run was saved again
C2_Witness ==
  \E i \in Range(written) :
    OutOf(i) \in preexisting /\ output_dir[OutOf(i)].run = "new"

\* C3: whenever the codec emitted fewer than 8192 tokens for the current
\* input, get_z raised the not-long-enough ValueError, the run has failed with
\* it, neither get_cond nor get_final_activations ran for that input, and no
\* output was saved for it.
C3_ShortTokensFail ==
  (Encoded /\ tokens < 8192) =>
    /\ error = NotLongEnough
    /\ pc = "failed"
    /\ "get_cond" \notin Range(trace)
    /\ "get_final_activations" \notin Range(trace)
    /\ "save" \notin Range(trace)
    /\ idx \notin Range(written)
    /\ z = NoTensor /\ cond = <<>> /\ acts = NoTensor

\* C3 witness: a codec that emitted fewer than 8192 tokens for an input
C3_Witness == Encoded /\ tokens < 8192 /\ tokens > 0 /\ error = NotLongEnough

C7_OneFilePerInput ==
  pc = "done" =>
    /\ Range(input_paths) = {n \in input_dir : is_wav(n)}
    /\ \A i, j \in 1..Len(input_paths) :
         i < j => str_lt(input_paths[i], input_paths[j])
    /\ written = Upto(Len(input_paths))
    /\ \A i \in 1..Len(input_paths) :
         /\ OutOf(i) \in DOMAIN output_dir
         /\ output_dir[OutOf(i)].run = "new"
         /\ output_dir[OutOf(i)].src = input_paths[i]
    /\ \A i, j \in 1..Len(input_paths) : i # j => OutOf(i) # OutOf(j)

\* the buffer length C8 as amended gives for a preprocessed length n
EncoderLength(n) ==
  IF n <= 1048576 THEN 1048576
  ELSE IF n <= 44100 * 25 THEN n ELSE 44100 * 25

\* C8 as claimed: the buffer handed to the codec always has exactly
\* 1,048,576 samples.
C8_EncoderLengthIsTarget == Encoded => enc_len = 1048576

\* C8 as amended: the buffer handed to the codec has 1,048,576 samples for an
\* input of at most 1,048,576 preprocessed samples, and min(n, 1,102,500)
\* samples for a longer input of n samples.
C8_EncoderLengthAmended == Encoded => enc_len = EncoderLength(raw_len)

\* C8 witness: an input longer than 25 s reached the codec
C8_Witness == Encoded /\ raw_len > 44100 * 25 /\ enc_len = 44100 * 25

\* 62 s of samples rounded down to a multiple of hop
IsRoundedSampleLength(m, sr, hop) ==
  m % hop = 0 /\ m <= 62 * sr /\ 62 * sr < m + hop

\* C9 as claimed: after loading, the bundle and the prior never differ from
\* what load_vqvae_and_prior returned.
C9_ModelsReadOnly ==
  pc # "settings" => hps = at_load.hps /\ top_prior = at_load.top_prior

\* C9 as amended: processing a file changes exactly two fields: get_cond
\* adds hps.sample_length (62 s of samples rounded down to a multiple of the
\* prior's raw_to_tokens) and get_final_activations sets the prior's
\* only_encode to True.  Every other field keeps its loaded value; both
\* objects are as loaded until the first file reaches get_cond, and once a
\* file has been saved both fields hold those values for the rest of the run.
C9_ModelsAmended ==
  pc # "settings" =>
    /\ \A f \in DOMAIN at_load.hps : f \in DOMAIN hps /\ hps[f] = at_load.hps[f]
    /\ DOMAIN hps \subseteq DOMAIN at_load.hps \cup {"sample_length"}
    /\ "sample_length" \in DOMAIN hps =>
         IsRoundedSampleLength(hps.sample_length, hps.sr, top_prior.raw_to_tokens)
    /\ [top_prior EXCEPT !.only_encode = FALSE] = at_load.top_prior
    /\ vqvae.raw_to_tokens = top_prior.raw_to_tokens
    /\ ("get_cond" \in Range(trace) \/ written # <<>>) <=>
         "sample_length" \in DOMAIN hps
    /\ ("get_final_activations" \in Range(trace) \/ written # <<>>) <=>
         top_prior.only_encode

\* C9 witness: a second file has passed get_cond and get_final_activations
C9_Witness ==
  /\ idx = 2 /\ pc = "postprocess" /\ written = <<1>>
  /\ hps.sample_length = 2734080 /\ top_prior.only_encode

\* C10: with a codec of one token per 128 samples the buffer handed to the
\* codec has at least 1,048,576 samples and yields at least 8192 tokens, so
\* get_z's not-long-enough error never occurs, however short the input.
C10_NotLongEnoughUnreachable ==
  (pc # "settings" /\ vqvae.raw_to_tokens = 128) =>
    /\ error # NotLongEnough
    /\ Encoded => enc_len >= 1048576 /\ tokens >= 8192

\* C10 witness: a one-sample input passed get_z
C10_Witness ==
  /\ pc # "settings" /\ vqvae.raw_to_tokens = 128
  /\ raw_len = 1 /\ "get_z" \in Range(trace) /\ tokens = 8192


\* audio_padding / the postprocessing has been called
PadCalled == pad_out.err # "not called"
PoolCalled == pool_out.err # "not called"

\* C6: for a buffer shorter than the target length, audio_padding returns a
\* buffer of exactly the target length whose first len(audio) samples are the
\* input's, in order, and whose remaining samples are all zero.
C6_PaddingExact ==
  (PadCalled /\ Len(Expand(pad_in)) < pad_target) =>
    /\ pad_out.err = None
    /\ LET inp == Expand(pad_in)
           out == Expand(pad_out.val)
       IN /\ Len(out) = pad_target
          /\ SubSeq(out, 1, Len(inp)) = inp
          /\ \A i \in (Len(inp) + 1)..Len(out) : out[i] = 0

\* C6 witness: a two-sample buffer padded to four samples
C6_Witness ==
  /\ PadCalled /\ Expand(pad_in) = <<1, -1>> /\ pad_target = 4
  /\ pad_out.err = None /\ Expand(pad_out.val) = <<1, -1, 0, 0>>

RECURSIVE RowSum(_, _, _, _, _)
\* the sum of column k over rows lo..hi (0-based) of row-major data of width w
RowSum(data, w, lo, hi, k) ==
  IF hi < lo THEN 0 ELSE data[hi * w + k + 1] + RowSum(data, w, lo, hi - 1, k)

\* C4: for a window count n that divides the number of rows R of the
\* activations, the postprocessing returns n rows of the activations' width,
\* and row i is the arithmetic mean of the consecutive activation rows
\* i*(R/n) .. (i+1)*(R/n)-1.
C4_RowsAreWindowMeans ==
  (PoolCalled /\ pool_in.shape[2] % pool_n = 0) =>
    /\ pool_out.err = None
    /\ LET w == pool_in.shape[3]
           m == pool_in.shape[2] \div pool_n
           out == pool_out.val
       IN /\ out.shape = <<pool_n, w>>
          /\ Len(out.data) = pool_n * w
          /\ \A i \in 0..(pool_n - 1), k \in 0..(w - 1) :
               LET mean == out.data[i * w + k + 1]
               IN /\ mean.den > 0
                  /\ mean.num * m =
                       mean.den * RowSum(pool_in.data, w, i * m, (i + 1) * m - 1, k)

\* C4 witness: four rows pooled into two windows of two rows each
C4_Witness ==
  /\ PoolCalled /\ pool_n = 2 /\ pool_in.shape = <<1, 4, 2>>
  /\ pool_in.data = <<1, 0, 0, 0, 1, 1, 0, 1>>
  /\ pool_out.err = None
  /\ pool_out.val.data = << [num |-> 1, den |-> 2], [num |-> 0, den |-> 2],
                            [num |-> 1, den |-> 2], [num |-> 2, den |-> 2] >>

====
